---- MODULE Spec2Model ----
(***************************************************************************)
(* Concurrency and lifecycle model of the Apple Xserve USB front-panel     *)
(* driver, src/xserve-frontpanel.c.                                        *)
(*                                                                         *)
(* Execution contexts:                                                     *)
(*   - the sampler work item (rackmeter_do_timer), the only caller of      *)
(*     frontpanel_write in the driver;                                     *)
(*   - the USB core giving URBs back (frontpanel_write_bulk_callback);     *)
(*   - the USB core's driver-model calls (suspend, resume, pre_reset,      *)
(*     post_reset, disconnect), which it serialises;                       *)
(*   - in SpecCaller only: one more caller of frontpanel_write, standing   *)
(*     for any user of the logical write interface.                        *)
(***************************************************************************)
EXTENDS Integers, FiniteSets, Sequences, TLC

\* ---------------------------------------------------------------- constants
WRITES_IN_FLIGHT == 8
PANEL_DATA_SIZE == 32

\* Linux errno values, as the driver uses them (negated).
ENOENT == -2
EIO == -5
EAGAIN == -11
ENOMEM == -12
ENODEV == -19
EPIPE == -32
EPROTO == -71
ECONNRESET == -104
ESHUTDOWN == -108

\* urb->status of a URB the transport gives back by itself.
NaturalStatus == {0, EPIPE, EPROTO, ESHUTDOWN}
\* urb->status of a URB that usb_kill_urb unlinked.
KilledStatus == ENOENT
\* Synchronous failures of usb_submit_urb.
SubmitErrors == {ENODEV, ESHUTDOWN}
\* The count argument of frontpanel_write: the sampler passes PANEL_DATA_SIZE.
CallerCounts == {16, 40}

Sampler == "sampler"
Caller == "caller"
Writers == {Sampler, Caller}
Free == "free"
Core == "core"

Min(a, b) == IF a < b THEN a ELSE b

\* The byte positions of dev->buffer and the entries of dev->cpu.
Channels == 0 .. (PANEL_DATA_SIZE - 1)
CpuSlots == 0 .. 15
\* The cores that are online: one with a slot in dev->cpu, one beyond.
OnlineCpus == {0, 16}
\* The largest value the host's cumulative idle and wall counters take.
MaxTick == 2
\* The largest counter difference for which the load formula is tabulated.
MaxDiff == 64
\* No cycle of rackmeter_do_timer is in its per-core loop.
NoSample == [c \in {} |-> 0]

VARIABLES
    sem,          \* dev->limit_sem: the count of the semaphore
    errors,       \* dev->errors
    errLock,      \* dev->err_lock: Free or the writer holding it
    ioMutex,      \* dev->io_mutex: Free, a writer, or Core
    disconnected, \* dev->disconnected
    kref,         \* dev->kref
    freed,        \* number of times frontpanel_delete ran
    anchored,     \* URBs on dev->submitted that the transport holds
    cb,           \* completion callbacks that have latched and not yet up()ed
    bufs,         \* transfer buffers allocated and not freed
    work,         \* dev->sniffer: "pending", "running" or "off"
    stopping,     \* cancel_delayed_work_sync is in progress
    lc,           \* position of the USB core's driver-model call
    pc,           \* position of each frontpanel_write caller
    count,        \* frontpanel_write's count argument
    retval,       \* frontpanel_write's local retval
    urb,          \* frontpanel_write's local urb is non-NULL
    ret,          \* value frontpanel_write returned, while the caller holds it
    path,         \* which exit frontpanel_write took (observation)
    late,         \* the call began after disconnect set the flag (observation)
    pending,      \* a failure was latched and no call has read it yet (observation)
    phase,        \* progress of the stall/reset/write sequence (observation)
    buffer,       \* dev->buffer: one byte per channel
    cpu,          \* dev->cpu: prev_idle and prev_wall of each core
    smp,          \* rackmeter_do_timer's locals for each core it processed
    emitted       \* the payload of the last write that was accepted (observation)

vars == <<sem, errors, errLock, ioMutex, disconnected, kref, freed, anchored, cb,
          bufs, work, stopping, lc, pc, count, retval, urb, ret, path, late,
          pending, phase, buffer, cpu, smp, emitted>>

loadVars == <<buffer, cpu, smp, emitted>>

devVars == <<sem, errors, errLock, ioMutex, disconnected, anchored, cb, bufs,
             work, stopping>>
lifeVars == <<disconnected, kref, freed, stopping, lc>>
callVars == <<pc, count, retval, urb, ret, path, late>>

\* ------------------------------------------------------------------- Init
\* The state frontpanel_probe leaves on success.
InitDev ==
    /\ sem = WRITES_IN_FLIGHT
    /\ errors = 0
    /\ errLock = Free
    /\ ioMutex = Free
    /\ disconnected = FALSE
    /\ kref = 1
    /\ freed = 0
    /\ anchored = 0
    /\ cb = 0
    /\ bufs = 0
    /\ work = "pending"
    /\ stopping = FALSE
    /\ lc = "idle"
    /\ pc = [w \in Writers |-> "idle"]
    /\ count = [w \in Writers |-> 0]
    /\ retval = [w \in Writers |-> 0]
    /\ urb = [w \in Writers |-> FALSE]
    /\ ret = [w \in Writers |-> 0]
    /\ path = [w \in Writers |-> "none"]
    /\ late = [w \in Writers |-> FALSE]
    /\ pending = FALSE
    /\ buffer = [ch \in Channels |-> 0]
    /\ cpu = [c \in CpuSlots |-> [prev_idle |-> 0, prev_wall |-> 0]]
    /\ smp = NoSample
    /\ emitted = [ch \in Channels |-> 0]

Init == InitDev /\ phase = 0

\* ------------------------------------------------ observation bookkeeping
\* The statuses the callback's comment calls "not errors".
Benign(s) == s = ENOENT \/ s = ECONNRESET \/ s = ESHUTDOWN
Failing(s) == s # 0 /\ ~Benign(s)

\* phase follows one run of: a completion with -EPIPE (1), pre_reset (2),
\* post_reset (3), the next call of frontpanel_write to read the latch (4),
\* its return (5), the next call to read the latch (6). Any other fault met
\* from 3 on abandons the run, and so does a call that had read the latch
\* before post_reset and returns -EPIPE after it.
\* Phase 7: the sequence is not observed (SpecCaller).
PhaseAfterStatus(s) ==
    IF phase = 7 THEN 7
    ELSE IF s = EPIPE /\ phase # 2 THEN 1
    ELSE IF s # 0 /\ phase >= 3 THEN 0
    ELSE phase
PhaseAfterFault == IF phase \in 3..6 THEN 0 ELSE phase

\* ------------------------------------------------------ frontpanel_write
\* Entry: writesize is min(count, PANEL_DATA_SIZE); nothing is shared yet.
Call(w, n) ==
    /\ pc[w] = "idle"
    /\ pc' = [pc EXCEPT ![w] = "call"]
    /\ count' = [count EXCEPT ![w] = n]
    /\ retval' = [retval EXCEPT ![w] = 0]
    /\ urb' = [urb EXCEPT ![w] = FALSE]
    /\ late' = [late EXCEPT ![w] = disconnected]
    /\ UNCHANGED <<ret, path>>

writesize(w) == Min(count[w], PANEL_DATA_SIZE)

\* Variant: the caller proceeds although no slot is left.
Trylock_Unbounded(w) ==
    /\ pc[w] = "call"
    /\ pc' = [pc EXCEPT ![w] = "take"]
    /\ sem' = IF sem = 0 THEN 0 ELSE sem - 1
    /\ UNCHANGED <<errors, errLock, ioMutex, anchored, cb, bufs, work,
                   lifeVars, count, retval, urb, ret, path, late, pending,
                   phase>>
    /\ UNCHANGED loadVars

\* Variant: a failed reservation leaves through the error label, which
\* releases a slot, instead of the exit label.
Trylock_ViaError(w) ==
    /\ pc[w] = "call"
    /\ IF sem = 0
       THEN /\ pc' = [pc EXCEPT ![w] = "error"]
            /\ retval' = [retval EXCEPT ![w] = EAGAIN]
            /\ path' = [path EXCEPT ![w] = "eagain"]
            /\ sem' = sem
       ELSE /\ pc' = [pc EXCEPT ![w] = "take"]
            /\ sem' = sem - 1
            /\ UNCHANGED <<retval, path>>
    /\ UNCHANGED <<errors, errLock, ioMutex, anchored, cb, bufs, work,
                   lifeVars, count, urb, ret, late, pending, phase>>
    /\ UNCHANGED loadVars

\* down_trylock(&dev->limit_sem): -EAGAIN and out when no slot is left.
Trylock(w) ==
    /\ pc[w] = "call"
    /\ IF sem = 0
       THEN /\ pc' = [pc EXCEPT ![w] = "ret"]
            /\ ret' = [ret EXCEPT ![w] = EAGAIN]
            /\ path' = [path EXCEPT ![w] = "eagain"]
            /\ sem' = sem
       ELSE /\ pc' = [pc EXCEPT ![w] = "take"]
            /\ sem' = sem - 1
            /\ UNCHANGED <<ret, path>>
    /\ UNCHANGED <<errors, errLock, ioMutex, anchored, cb, bufs, work,
                   lifeVars, count, retval, urb, late, pending, phase>>
    /\ UNCHANGED loadVars

\* spin_lock_irq(&dev->err_lock); retval = dev->errors;
TakeRead(w) ==
    /\ pc[w] = "take"
    /\ errLock = Free
    /\ errLock' = w
    /\ retval' = [retval EXCEPT ![w] = errors]
    /\ pc' = [pc EXCEPT ![w] = "clear"]
    /\ pending' = IF errors < 0 THEN FALSE ELSE pending
    /\ phase' = IF phase = 3 \/ phase = 5 THEN phase + 1 ELSE phase
    /\ UNCHANGED <<sem, errors, ioMutex, anchored, cb, bufs, work, lifeVars,
                   count, urb, ret, path, late>>
    /\ UNCHANGED loadVars

\* Variant: the latched code is returned as it was read.
Classify_Verbatim(e) == e

\* "to preserve notifications about reset"
Classify(e) == IF e = EPIPE THEN e ELSE EIO

\* if (retval < 0) { dev->errors = 0; retval = ...; } spin_unlock_irq; goto error
TakeClear(w) ==
    /\ pc[w] = "clear"
    /\ errLock' = Free
    /\ IF retval[w] < 0
       THEN /\ errors' = 0
            /\ retval' = [retval EXCEPT ![w] = Classify(retval[w])]
            /\ path' = [path EXCEPT ![w] = "latch"]
            /\ pc' = [pc EXCEPT ![w] = "error"]
       ELSE /\ pc' = [pc EXCEPT ![w] = "alloc"]
            /\ UNCHANGED <<errors, retval, path>>
    /\ UNCHANGED <<sem, ioMutex, anchored, cb, bufs, work, lifeVars, count,
                   urb, ret, late, pending, phase>>
    /\ UNCHANGED loadVars

\* usb_alloc_urb and usb_alloc_coherent both succeed; memcpy.
AllocOk(w) ==
    /\ pc[w] = "alloc"
    /\ urb' = [urb EXCEPT ![w] = TRUE]
    /\ bufs' = bufs + 1
    /\ pc' = [pc EXCEPT ![w] = "lock"]
    /\ UNCHANGED <<sem, errors, errLock, ioMutex, anchored, cb, work, lifeVars,
                   count, retval, ret, path, late, pending, phase>>
    /\ UNCHANGED loadVars

\* usb_alloc_urb fails (urb stays NULL), or usb_alloc_coherent fails (the urb
\* exists, its buffer does not): -ENOMEM either way.
AllocFail(w) ==
    /\ pc[w] = "alloc"
    /\ \E u \in BOOLEAN : urb' = [urb EXCEPT ![w] = u]
    /\ retval' = [retval EXCEPT ![w] = ENOMEM]
    /\ path' = [path EXCEPT ![w] = "nomem"]
    /\ pc' = [pc EXCEPT ![w] = "error"]
    /\ phase' = IF w = Sampler THEN PhaseAfterFault ELSE phase
    /\ UNCHANGED <<sem, errors, errLock, ioMutex, anchored, cb, bufs, work,
                   lifeVars, count, ret, late, pending>>
    /\ UNCHANGED loadVars

\* mutex_lock(&dev->io_mutex)
MutexLock(w) ==
    /\ pc[w] = "lock"
    /\ ioMutex = Free
    /\ ioMutex' = w
    /\ pc' = [pc EXCEPT ![w] = "check"]
    /\ UNCHANGED <<sem, errors, errLock, anchored, cb, bufs, work, lifeVars,
                   count, retval, urb, ret, path, late, pending, phase>>
    /\ UNCHANGED loadVars

\* Variant: the disconnected flag is not looked at.
CheckGone_Unchecked(w) ==
    /\ pc[w] = "check"
    /\ pc' = [pc EXCEPT ![w] = "submit"]
    /\ UNCHANGED <<sem, errors, errLock, ioMutex, anchored, cb, bufs, work,
                   lifeVars, count, retval, urb, ret, path, late, pending,
                   phase>>
    /\ UNCHANGED loadVars

\* if (dev->disconnected) { mutex_unlock; retval = -ENODEV; goto error; }
CheckGone(w) ==
    /\ pc[w] = "check"
    /\ IF disconnected
       THEN /\ ioMutex' = Free
            /\ retval' = [retval EXCEPT ![w] = ENODEV]
            /\ path' = [path EXCEPT ![w] = "gone"]
            /\ pc' = [pc EXCEPT ![w] = "error"]
       ELSE /\ pc' = [pc EXCEPT ![w] = "submit"]
            /\ UNCHANGED <<ioMutex, retval, path>>
    /\ UNCHANGED <<sem, errors, errLock, anchored, cb, bufs, work, lifeVars,
                   count, urb, ret, late, pending, phase>>
    /\ UNCHANGED loadVars

\* usb_anchor_urb; usb_submit_urb; mutex_unlock. On success the transport
\* holds the URB and its buffer and the call returns writesize; on failure
\* the URB is unanchored again (error_unanchor) before the common error exit.
Submit(w) ==
    /\ pc[w] = "submit"
    /\ ioMutex' = Free
    /\ \E r \in {0} \cup SubmitErrors :
        IF r = 0
        THEN /\ anchored' = anchored + 1
             /\ urb' = [urb EXCEPT ![w] = FALSE]
             /\ ret' = [ret EXCEPT ![w] = writesize(w)]
             /\ path' = [path EXCEPT ![w] = "ok"]
             /\ pc' = [pc EXCEPT ![w] = "ret"]
             /\ emitted' = IF w = Sampler THEN buffer ELSE emitted
             /\ UNCHANGED <<retval, phase>>
        ELSE /\ retval' = [retval EXCEPT ![w] = r]
             /\ path' = [path EXCEPT ![w] = "subfail"]
             /\ pc' = [pc EXCEPT ![w] = "error"]
             /\ phase' = IF w = Sampler THEN PhaseAfterFault ELSE phase
             /\ UNCHANGED <<anchored, urb, ret, emitted>>
    /\ UNCHANGED <<sem, errors, errLock, cb, bufs, work, lifeVars, count, late,
                   pending>>
    /\ UNCHANGED <<buffer, cpu, smp>>

\* Variant: the error exit releases the slot and keeps the transfer buffer.
ErrorExit_Leak(w) ==
    /\ pc[w] = "error"
    /\ sem' = sem + 1
    /\ ret' = [ret EXCEPT ![w] = retval[w]]
    /\ pc' = [pc EXCEPT ![w] = "ret"]
    /\ UNCHANGED <<errors, errLock, ioMutex, anchored, cb, bufs, work, lifeVars,
                   count, retval, urb, path, late, pending, phase>>
    /\ UNCHANGED loadVars

\* error: if (urb) { usb_free_coherent; usb_free_urb; } up(&dev->limit_sem);
\* exit: return retval;
ErrorExit(w) ==
    /\ pc[w] = "error"
    /\ bufs' = IF urb[w] /\ path[w] # "nomem" THEN bufs - 1 ELSE bufs
    /\ urb' = [urb EXCEPT ![w] = FALSE]
    /\ sem' = sem + 1
    /\ ret' = [ret EXCEPT ![w] = retval[w]]
    /\ pc' = [pc EXCEPT ![w] = "ret"]
    /\ UNCHANGED <<errors, errLock, ioMutex, anchored, cb, work, lifeVars,
                   count, retval, path, late, pending, phase>>
    /\ UNCHANGED loadVars

\* The caller has the return value; the call's locals die.
Return(w) ==
    /\ pc' = [pc EXCEPT ![w] = "idle"]
    /\ count' = [count EXCEPT ![w] = 0]
    /\ retval' = [retval EXCEPT ![w] = 0]
    /\ urb' = [urb EXCEPT ![w] = FALSE]
    /\ ret' = [ret EXCEPT ![w] = 0]
    /\ path' = [path EXCEPT ![w] = "none"]
    /\ late' = [late EXCEPT ![w] = FALSE]

WriteStep(w) ==
    \/ Trylock(w)
    \/ TakeRead(w)
    \/ TakeClear(w)
    \/ AllocOk(w)
    \/ AllocFail(w)
    \/ MutexLock(w)
    \/ CheckGone(w)
    \/ Submit(w)
    \/ ErrorExit(w)

\* ---------------------------------------------------- rackmeter_do_timer
\* The delayed work fires: the per-cpu loop decides "updated"; if set, the
\* cycle calls frontpanel_write(dev, dev->buffer, PANEL_DATA_SIZE). Here the
\* payload is not tracked: "updated" is either value, as the host's counters
\* can make it in any cycle. SamplerCycle below is the same run with the
\* counters and the payload tracked.
SamplerRun ==
    /\ work = "pending"
    /\ pc[Sampler] = "idle"
    /\ work' = "running"
    /\ \E updated \in BOOLEAN :
        IF updated
        THEN Call(Sampler, PANEL_DATA_SIZE)
        ELSE /\ pc' = [pc EXCEPT ![Sampler] = "resched"]
             /\ UNCHANGED <<count, retval, urb, ret, path, late>>
    /\ UNCHANGED <<sem, errors, errLock, ioMutex, anchored, cb, bufs, lifeVars,
                   pending, phase>>
    /\ UNCHANGED loadVars

\* Variant: a cycle whose write failed does not queue the next one.
Resched_StopOnFailure ==
    /\ pc[Sampler] \in {"ret", "resched"}
    /\ work = "running"
    /\ Return(Sampler)
    /\ work' = IF stopping \/ (pc[Sampler] = "ret" /\ ret[Sampler] <= 0)
               THEN "off" ELSE "pending"
    /\ UNCHANGED <<sem, errors, errLock, ioMutex, anchored, cb, bufs, lifeVars,
                   pending, phase>>
    /\ smp' = NoSample
    /\ UNCHANGED <<buffer, cpu, emitted>>

\* if (ret <= 0) dev_err(...); schedule_delayed_work_on(...): queueing fails
\* while cancel_delayed_work_sync is cancelling the work.
Resched ==
    /\ pc[Sampler] \in {"ret", "resched"}
    /\ work = "running"
    /\ Return(Sampler)
    /\ work' = IF stopping THEN "off" ELSE "pending"
    /\ phase' = IF pc[Sampler] # "ret" THEN phase
                ELSE IF phase = 4 THEN 5
                ELSE IF phase = 6 THEN 0
                ELSE IF phase = 3 /\ ret[Sampler] = EPIPE THEN 0
                ELSE phase
    /\ UNCHANGED <<sem, errors, errLock, ioMutex, anchored, cb, bufs, lifeVars,
                   pending>>
    /\ smp' = NoSample
    /\ UNCHANGED <<buffer, cpu, emitted>>

\* ------------------------------------- rackmeter_do_timer's per-core loop
\* if (cpu > 15) continue;
Tracked == {c \in OnlineCpus : ~(c > 15)}

\* get_cpu_idle_time(cpu, &cpu_wall, 0): the cumulative idle and wall time of
\* core c; neither is below what the previous cycle read, and the wall time
\* since boot is positive.
Readings(c) ==
    {t \in [cpu_idle : 0 .. MaxTick, cpu_wall : 1 .. MaxTick] :
        t.cpu_idle >= cpu[c].prev_idle /\ t.cpu_wall >= cpu[c].prev_wall}

\* Variant: diff_wall is not raised to diff_idle.
Clamp_None(di, dw) == dw

\* if (diff_idle > diff_wall) diff_wall = diff_idle;
Clamp(di, dw) == IF di > dw THEN di ELSE dw

\* div64_u64(255 * (diff_wall - diff_idle), diff_wall) for diff_wall # 0. The
\* counters are microseconds: the product stays far below 2^63.
Quot(di, dw) == (255 * (dw - di)) \div dw

\* div64_u64 with divisor 0 is undefined: the division instruction traps
\* (Trap), or it yields some value.
Trap == "trap"
DivByZero == {Trap, "q0", "q255"}
Garbage(q) == IF q = "q0" THEN 0 ELSE 255

\* (__u8)load
Byte(l) == l % 256

\* The locals of one pass of the loop for core c, given the counters read and
\* what a division by zero does.
Locals(c, t, q) ==
    LET di == t.cpu_idle - cpu[c].prev_idle
        dw == Clamp(di, t.cpu_wall - cpu[c].prev_wall)
    IN  [cpu_idle |-> t.cpu_idle,
         cpu_wall |-> t.cpu_wall,
         diff_idle |-> di,
         diff_wall |-> dw,
         oops |-> (dw = 0 /\ q = Trap),
         load |-> IF dw # 0 THEN Quot(di, dw)
                  ELSE IF q = Trap THEN 0 ELSE Garbage(q)]

\* One run of rackmeter_do_timer with the payload tracked: the loop over the
\* online cores in ascending order, then the write if a byte changed. A trap
\* ends the run inside the loop: the cores before it are done, the work item
\* never finishes.
SamplerCycle ==
    /\ work = "pending"
    /\ pc[Sampler] = "idle"
    /\ work' = "running"
    /\ \E t \in [Tracked -> [cpu_idle : 0 .. MaxTick, cpu_wall : 0 .. MaxTick]],
          q \in [Tracked -> DivByZero] :
        /\ \A c \in Tracked : t[c] \in Readings(c)
        /\ LET l == [c \in Tracked |-> Locals(c, t[c], q[c])]
               trapped == {c \in Tracked : l[c].oops}
               done == {c \in Tracked : \A x \in trapped : c < x}
               seen == {c \in Tracked : \A x \in trapped : c <= x}
               updated == \E c \in done : buffer[c] # Byte(l[c].load)
           IN  /\ smp' = [c \in seen |-> l[c]]
               /\ buffer' = [ch \in Channels |->
                                IF ch \in done THEN Byte(l[ch].load)
                                ELSE buffer[ch]]
               /\ cpu' = [c \in CpuSlots |->
                             IF c \in done
                             THEN [prev_idle |-> l[c].cpu_idle,
                                   prev_wall |-> l[c].cpu_wall]
                             ELSE cpu[c]]
               /\ IF trapped # {}
                  THEN /\ pc' = [pc EXCEPT ![Sampler] = "oops"]
                       /\ UNCHANGED <<count, retval, urb, ret, path, late>>
                  ELSE IF updated
                  THEN Call(Sampler, PANEL_DATA_SIZE)
                  ELSE /\ pc' = [pc EXCEPT ![Sampler] = "resched"]
                       /\ UNCHANGED <<count, retval, urb, ret, path, late>>
    /\ UNCHANGED <<sem, errors, errLock, ioMutex, anchored, cb, bufs, lifeVars,
                   pending, phase, emitted>>

\* ------------------------------------------- a caller besides the sampler
\* frontpanel_write called by another user of the write interface. It calls
\* only while the device exists, and the final release waits for it.
CallerCall ==
    /\ freed = 0
    /\ \E n \in CallerCounts : Call(Caller, n)
    /\ phase' = PhaseAfterFault
    /\ UNCHANGED <<sem, errors, errLock, ioMutex, anchored, cb, bufs, work,
                   lifeVars, pending>>
    /\ UNCHANGED loadVars

CallerReturn ==
    /\ pc[Caller] = "ret"
    /\ Return(Caller)
    /\ UNCHANGED <<sem, errors, errLock, ioMutex, anchored, cb, bufs, work,
                   lifeVars, pending, phase>>
    /\ UNCHANGED loadVars

\* --------------------------------------- frontpanel_write_bulk_callback
\* if (urb->status) { ...; dev->errors = urb->status; }: the test on the three
\* unlink statuses guards the dev_err message only.
CallbackLatches(s) == s # 0

\* dev->errors after the callback saw urb->status s.
CallbackErrors(s) == IF CallbackLatches(s) THEN s ELSE errors

\* The transport takes a URB off the anchor and runs its callback up to the
\* end of the err_lock section (the callback takes err_lock only if s # 0).
Complete(s) ==
    /\ anchored > 0
    /\ CallbackLatches(s) => errLock = Free
    /\ anchored' = anchored - 1
    /\ cb' = cb + 1
    /\ errors' = CallbackErrors(s)
    /\ pending' = IF Failing(s) THEN TRUE ELSE pending
    /\ phase' = PhaseAfterStatus(s)
    /\ UNCHANGED <<sem, errLock, ioMutex, bufs, work, lifeVars, callVars>>
    /\ UNCHANGED loadVars

\* A URB completes by itself.
Giveback == \E s \in NaturalStatus : Complete(s)

Killing == lc \in {"s_kill", "r_kill", "d_kill"}

\* usb_kill_anchored_urbs unlinks one URB: its callback runs with -ENOENT.
Kill ==
    /\ Killing
    /\ Complete(KilledStatus)

\* Variant: the callback releases the slot twice.
CbUp_Twice ==
    /\ cb > 0
    /\ cb' = cb - 1
    /\ bufs' = bufs - 1
    /\ sem' = sem + 2
    /\ UNCHANGED <<errors, errLock, ioMutex, anchored, work, lifeVars, callVars,
                   pending, phase>>
    /\ UNCHANGED loadVars

\* usb_free_coherent(...); up(&dev->limit_sem);
CbUp ==
    /\ cb > 0
    /\ cb' = cb - 1
    /\ bufs' = bufs - 1
    /\ sem' = sem + 1
    /\ UNCHANGED <<errors, errLock, ioMutex, anchored, work, lifeVars, callVars,
                   pending, phase>>
    /\ UNCHANGED loadVars

\* ------------------------------------------------- frontpanel_draw_down
\* usb_wait_anchor_empty_timeout and usb_kill_anchored_urbs both return only
\* when the anchor is empty and no callback of it is running.
Drained == anchored = 0 /\ cb = 0

Step(from, to) ==
    /\ lc = from
    /\ lc' = to
    /\ UNCHANGED <<sem, errors, errLock, ioMutex, disconnected, kref, freed,
                   anchored, cb, bufs, work, stopping, callVars, pending, phase>>
    /\ UNCHANGED loadVars

\* ---------------------------------------- frontpanel_suspend / _resume
Suspend == Step("idle", "s_wait")
SuspendDrained == Drained /\ Step("s_wait", "s_ret")
SuspendTimeout == ~Drained /\ Step("s_wait", "s_kill")
SuspendKilled == Drained /\ Step("s_kill", "s_ret")
SuspendReturn == Step("s_ret", "suspended")
Resume == Step("suspended", "idle")

\* ------------------------------------ frontpanel_pre_reset / _post_reset
PreReset ==
    /\ lc = "idle"
    /\ ioMutex = Free
    /\ ioMutex' = Core
    /\ lc' = "r_wait"
    /\ phase' = IF phase = 1 THEN 2 ELSE PhaseAfterFault
    /\ UNCHANGED <<sem, errors, errLock, disconnected, kref, freed, anchored,
                   cb, bufs, work, stopping, callVars, pending>>
    /\ UNCHANGED loadVars
\* Variant: pre_reset returns without draining the anchor.
PreResetDrained_NoWait == Step("r_wait", "in_reset")

PreResetDrained == Drained /\ Step("r_wait", "in_reset")
PreResetTimeout == ~Drained /\ Step("r_wait", "r_kill")
PreResetKilled == Drained /\ Step("r_kill", "in_reset")

\* Variant: post_reset does not release io_mutex.
PostReset_KeepsLock ==
    /\ lc = "in_reset"
    /\ errors' = EPIPE
    /\ lc' = "idle"
    /\ pending' = TRUE
    /\ phase' = IF phase = 2 THEN 3 ELSE PhaseAfterFault
    /\ UNCHANGED <<sem, errLock, ioMutex, disconnected, kref, freed, anchored,
                   cb, bufs, work, stopping, callVars>>
    /\ UNCHANGED loadVars

\* dev->errors = -EPIPE, stored without err_lock; mutex_unlock(&dev->io_mutex)
PostReset ==
    /\ lc = "in_reset"
    /\ errors' = EPIPE
    /\ ioMutex' = Free
    /\ lc' = "idle"
    /\ pending' = TRUE
    /\ phase' = IF phase = 2 THEN 3 ELSE PhaseAfterFault
    /\ UNCHANGED <<sem, errLock, disconnected, kref, freed, anchored, cb, bufs,
                   work, stopping, callVars>>
    /\ UNCHANGED loadVars

\* ------------------------------------------------ frontpanel_disconnect
\* Variant: disconnect does not stop the sampler.
StopBegin_Skipped == Step("idle", "d_lock")

\* cancel_delayed_work_sync begins: a pending run is cancelled and queueing
\* is refused from now on.
StopBegin ==
    /\ lc = "idle"
    /\ lc' = "d_stop"
    /\ stopping' = TRUE
    /\ work' = IF work = "pending" THEN "off" ELSE work
    /\ UNCHANGED <<sem, errors, errLock, ioMutex, disconnected, kref, freed,
                   anchored, cb, bufs, callVars, pending, phase>>
    /\ UNCHANGED loadVars

\* Variant: cancel_delayed_work, which does not wait for a run in progress
\* and does not keep it from queueing itself again.
StopDone_NoSync ==
    /\ lc = "d_stop"
    /\ lc' = "d_lock"
    /\ stopping' = FALSE
    /\ UNCHANGED <<sem, errors, errLock, ioMutex, disconnected, kref, freed,
                   anchored, cb, bufs, work, callVars, pending, phase>>
    /\ UNCHANGED loadVars

\* cancel_delayed_work_sync returns once no run is executing.
StopDone ==
    /\ lc = "d_stop"
    /\ work = "off"
    /\ lc' = "d_lock"
    /\ stopping' = FALSE
    /\ UNCHANGED <<sem, errors, errLock, ioMutex, disconnected, kref, freed,
                   anchored, cb, bufs, work, callVars, pending, phase>>
    /\ UNCHANGED loadVars

\* Variant: disconnect sets the flag without taking io_mutex.
DiscLock_NoLock ==
    /\ lc = "d_lock"
    /\ lc' = "d_set"
    /\ UNCHANGED <<sem, errors, errLock, ioMutex, disconnected, kref, freed,
                   anchored, cb, bufs, work, stopping, callVars, pending, phase>>
    /\ UNCHANGED loadVars

\* mutex_lock(&dev->io_mutex)
DiscLock ==
    /\ lc = "d_lock"
    /\ ioMutex = Free
    /\ ioMutex' = Core
    /\ lc' = "d_set"
    /\ UNCHANGED <<sem, errors, errLock, disconnected, kref, freed, anchored,
                   cb, bufs, work, stopping, callVars, pending, phase>>
    /\ UNCHANGED loadVars

\* dev->disconnected = 1; mutex_unlock(&dev->io_mutex)
DiscSet ==
    /\ lc = "d_set"
    /\ disconnected' = TRUE
    /\ ioMutex' = Free
    /\ lc' = "d_kill"
    /\ UNCHANGED <<sem, errors, errLock, kref, freed, anchored, cb, bufs, work,
                   stopping, callVars, pending, phase>>
    /\ UNCHANGED loadVars

\* usb_kill_anchored_urbs returns
DiscKilled == Drained /\ Step("d_kill", "d_put")

\* kref_put(&dev->kref, frontpanel_delete): the count was set to 1 by probe
\* and nothing else takes a reference, so this frees the device. A caller
\* other than the sampler (SpecCaller) has returned by then; in Spec it never
\* calls.
DiscPut ==
    /\ lc = "d_put"
    /\ pc[Caller] = "idle"
    /\ kref' = kref - 1
    /\ freed' = IF kref - 1 = 0 THEN freed + 1 ELSE freed
    /\ lc' = "gone"
    /\ UNCHANGED <<sem, errors, errLock, ioMutex, disconnected, anchored, cb,
                   bufs, work, stopping, callVars, pending, phase>>
    /\ UNCHANGED loadVars

\* ------------------------------------------------------- specifications
Next ==
    \/ \E w \in Writers : WriteStep(w)
    \/ SamplerRun
    \/ Resched
    \/ Giveback
    \/ Kill
    \/ CbUp
    \/ Suspend
    \/ SuspendDrained
    \/ SuspendTimeout
    \/ SuspendKilled
    \/ SuspendReturn
    \/ Resume
    \/ PreReset
    \/ PreResetDrained
    \/ PreResetTimeout
    \/ PreResetKilled
    \/ PostReset
    \/ StopBegin
    \/ StopDone
    \/ DiscLock
    \/ DiscSet
    \/ DiscKilled
    \/ DiscPut

\* The driver as it is: the sampler is the only caller of frontpanel_write.
Spec == Init /\ [][Next]_vars

NextCaller ==
    \/ Next
    \/ CallerCall
    \/ CallerReturn

\* The driver with one more caller of frontpanel_write; the stall/reset
\* sequence, which is about the sampler's writes, is not observed here.
InitCaller == InitDev /\ phase = 7
SpecCaller == InitCaller /\ [][NextCaller]_vars

\* The sampler, the write path and the transport with the payload tracked
\* and the host's counters as input; the USB core makes no driver-model call.
NextSampler ==
    \/ \E w \in Writers : WriteStep(w)
    \/ SamplerCycle
    \/ Resched
    \/ Giveback
    \/ CbUp

InitSampler == InitDev /\ phase = 7
SpecSampler == InitSampler /\ [][NextSampler]_vars

\* The scheduling the kernel provides: a work item that can run does run,
\* the transport gives back every URB it was told to unlink and a callback
\* that started finishes, a blocked call of the USB core goes on once it can,
\* and every pre_reset is followed by its post_reset.
Fairness ==
    /\ WF_vars(WriteStep(Sampler))
    /\ WF_vars(Resched)
    /\ WF_vars(Kill)
    /\ WF_vars(CbUp)
    /\ WF_vars(PreResetDrained \/ PreResetTimeout \/ PreResetKilled)
    /\ WF_vars(PostReset)
    /\ WF_vars(StopDone)
    /\ WF_vars(DiscLock)
    /\ WF_vars(DiscSet)
    /\ WF_vars(DiscKilled)
    /\ WF_vars(DiscPut)

SpecLive == Init /\ [][Next]_vars /\ Fairness

TypeOK ==
    /\ sem \in 0..WRITES_IN_FLIGHT
    /\ anchored \in 0..WRITES_IN_FLIGHT
    /\ cb \in 0..WRITES_IN_FLIGHT
    /\ phase \in 0..7

\* ------------------------------------------------------------------ claims
\* Calls of frontpanel_write that hold a slot of limit_sem.
SlotPcs == {"take", "clear", "alloc", "lock", "check", "submit", "error"}
Reserved == Cardinality({w \in Writers : pc[w] \in SlotPcs})
Holders == Reserved + anchored + cb

\* C1: once disconnected is set it stays set and no URB is submitted any
\* more; frontpanel_write checks the flag and submits while it holds
\* io_mutex, and disconnect sets the flag while it holds io_mutex.
C1_NoSubmitAfterDisconnect ==
    /\ [][disconnected => (disconnected' /\ anchored' <= anchored)]_vars
    /\ [](\A w \in Writers : pc[w] \in {"check", "submit"} => ioMutex = w)
    /\ [](lc = "d_set" => ioMutex = Core)

\* A call that was already past its allocation when disconnect set the flag
\* was turned away at the flag check.
C1_Witness ==
    /\ disconnected
    /\ \E w \in Writers : pc[w] = "ret" /\ path[w] = "gone" /\ ~late[w]

\* C2: at most WRITES_IN_FLIGHT calls and URBs hold a slot, and so at most
\* WRITES_IN_FLIGHT URBs are with the transport.
C2_SlotBound ==
    /\ Holders <= WRITES_IN_FLIGHT
    /\ anchored + cb <= WRITES_IN_FLIGHT

C2_Witness == anchored = WRITES_IN_FLIGHT

\* C3: with every slot taken, frontpanel_write returns -EAGAIN in its first
\* step, which it can always take, and that step changes nothing of the
\* device: not the latch, not the slot count, not the anchor.
C3_WouldBlock ==
    /\ [](\A w \in Writers : pc[w] = "call" => ENABLED Trylock(w))
    /\ [][\A w \in Writers :
            (pc[w] = "call" /\ pc'[w] # "call" /\ sem = 0)
            => /\ pc'[w] = "ret"
               /\ ret'[w] = EAGAIN
               /\ UNCHANGED <<sem, errors, errLock, ioMutex, anchored, cb, bufs,
                              pending>>]_vars

C3_Witness ==
    /\ anchored = WRITES_IN_FLIGHT
    /\ pc[Sampler] = "ret"
    /\ ret[Sampler] = EAGAIN
    /\ path[Sampler] = "eagain"

\* C4 as stated: every call of frontpanel_write that begins after disconnect
\* set the flag returns -ENODEV, whatever the latch and the slots hold (a call
\* that could not get memory is left aside).
C4_AlwaysDeviceGone ==
    \A w \in Writers :
        (late[w] /\ pc[w] = "ret" /\ path[w] # "nomem") => ret[w] = ENODEV

\* C4 amended: a call that begins after disconnect set the flag never reaches
\* the submission and always fails; it returns -ENODEV unless it failed at an
\* earlier step: -EAGAIN with no slot left, the latched error (-EPIPE or
\* -EIO), or -ENOMEM.
C4_FailsAfterDisconnect ==
    \A w \in Writers :
        late[w] =>
            /\ pc[w] # "submit"
            /\ pc[w] = "ret" =>
                /\ ret[w] < 0
                /\ path[w] \in {"eagain", "latch", "nomem", "gone"}
                /\ path[w] = "eagain" => ret[w] = EAGAIN
                /\ path[w] = "latch" => ret[w] \in {EPIPE, EIO}
                /\ path[w] = "nomem" => ret[w] = ENOMEM
                /\ path[w] = "gone" => ret[w] = ENODEV

C4_Witness ==
    \E w \in Writers :
        late[w] /\ pc[w] = "ret" /\ path[w] = "gone" /\ ret[w] = ENODEV

\* C5: the latch reports every error exactly once. Whenever no call is inside
\* the err_lock section, the latch is non-zero exactly when an error was
\* latched that no call has read yet: the call that reads it clears it, so
\* the call after it observes none, no error is reported twice and none is
\* lost.
C5_ExactlyOnce == errLock = Free => (pending <=> errors # 0)

\* C6: the latch never holds one of the unlink/shutdown statuses: a
\* completion with such a status leaves the latch as it was.
C6_BenignIgnored == ~Benign(errors)

\* C7: after a completion with -EPIPE, pre_reset and post_reset, the next
\* call of frontpanel_write to read the latch returns -EPIPE and, with no
\* fault in between, the call after it succeeds.
C7_StallReportedOnce ==
    pc[Sampler] = "ret" =>
        /\ phase = 4 => ret[Sampler] = EPIPE
        /\ phase = 6 => ret[Sampler] = PANEL_DATA_SIZE

\* Nothing of the driver holds a slot.
Quiescent ==
    /\ anchored = 0
    /\ cb = 0
    /\ Reserved = 0

\* C8: every reservation is released exactly once: the free slots and the
\* holders of a slot always add up to WRITES_IN_FLIGHT, so the free count
\* never exceeds it and equals it once nothing holds a slot.
C8_ReleasedExactlyOnce ==
    /\ sem + Holders = WRITES_IN_FLIGHT
    /\ sem <= WRITES_IN_FLIGHT
    /\ Quiescent => sem = WRITES_IN_FLIGHT

\* Disconnect has force-cancelled URBs (only a killed URB latches -ENOENT),
\* everything has drained, and all slots are free again.
C8_Witness ==
    /\ lc = "d_put"
    /\ errors = KilledStatus
    /\ Quiescent
    /\ sem = WRITES_IN_FLIGHT

\* C9: when frontpanel_delete has run, the sampler is off and not being
\* cancelled, no URB is in flight, no callback is running, no call of
\* frontpanel_write is in progress, no lock is held, no buffer is left; the
\* device was freed once; and no step is taken afterwards.
C9_QuiescentAtFree ==
    /\ [](freed > 0 =>
            /\ freed = 1
            /\ kref = 0
            /\ work = "off"
            /\ ~stopping
            /\ anchored = 0
            /\ cb = 0
            /\ bufs = 0
            /\ \A w \in Writers : pc[w] = "idle"
            /\ ioMutex = Free
            /\ errLock = Free)
    /\ [][freed = 0]_vars

\* The device was freed by a disconnect that had to cancel URBs.
C9_Witness == freed = 1 /\ lc = "gone" /\ errors = KilledStatus

\* C10: at the moment frontpanel_suspend returns, no URB is in flight and no
\* callback is running.
C10_SuspendLeavesNothing ==
    [][(lc = "s_ret" /\ lc' = "suspended") => (anchored = 0 /\ cb = 0)]_vars

\* C13: from the return of pre_reset to post_reset, io_mutex is held by the
\* reset path, the anchor is empty, no callback is running and no call of
\* frontpanel_write is at its flag check or its submission, so the anchor
\* stays empty; the reset path holds the mutex nowhere else but inside
\* pre_reset, and post_reset releases it.
C13_ResetHoldsLock ==
    /\ [](lc = "in_reset" =>
            /\ ioMutex = Core
            /\ anchored = 0
            /\ cb = 0
            /\ \A w \in Writers : pc[w] \notin {"check", "submit"})
    /\ [](lc \in {"r_wait", "r_kill"} => ioMutex = Core)
    /\ [][lc = "in_reset" => anchored' = 0]_vars
    /\ [][(lc = "in_reset" /\ lc' # "in_reset") =>
            (lc' = "idle" /\ ioMutex = Core /\ ioMutex' = Free)]_vars
    /\ [](lc \in {"idle", "s_wait", "s_kill", "s_ret", "suspended"} =>
            ioMutex # Core)

\* The reset is in progress after pre_reset had to cancel a URB, and a sampler
\* cycle that holds a slot and a buffer waits for io_mutex.
C13_Witness ==
    /\ lc = "in_reset"
    /\ errors = KilledStatus
    /\ pc[Sampler] = "lock"
    /\ urb[Sampler]

\* Calls of frontpanel_write that own a transfer buffer.
Owning == Cardinality({w \in Writers : urb[w] /\ path[w] # "nomem"})

\* C14: a call of frontpanel_write that failed after it had reserved a slot
\* has, when it returns, given the slot back (once: the slot count goes up by
\* exactly one at the error exit), no URB left on the anchor, no transfer
\* buffer and neither lock; a submission the transport refused returns the
\* transport's code.
C14_FailureReleasesAll ==
    /\ [](bufs = anchored + cb + Owning)
    /\ [](sem + Holders = WRITES_IN_FLIGHT)
    /\ [](\A w \in Writers :
            (pc[w] = "ret" /\ path[w] \in {"latch", "nomem", "gone", "subfail"})
            => /\ ~urb[w]
               /\ ioMutex # w
               /\ errLock # w
               /\ ret[w] < 0
               /\ path[w] = "subfail" => ret[w] \in SubmitErrors)
    /\ [][\A w \in Writers :
            (pc[w] = "error" /\ pc'[w] # "error")
            => (pc'[w] = "ret" /\ sem' = sem + 1 /\ anchored' = anchored
                /\ ret'[w] = retval[w])]_vars

\* The transport refused a submission: the call returns its code, and every
\* buffer left belongs to a URB in flight or to a running callback.
C14_Witness ==
    /\ pc[Sampler] = "ret"
    /\ path[Sampler] = "subfail"
    /\ ret[Sampler] = ENODEV
    /\ anchored > 0
    /\ bufs = anchored + cb

\* C15: a cycle of rackmeter_do_timer that finishes queues the next one unless
\* the sampler is being stopped, whatever its write returned; it calls
\* frontpanel_write at most once; it never sets the disconnected flag; and
\* the sampler is off only through Stop.
C15_AlwaysReschedules ==
    /\ [][(work = "running" /\ work' # "running") =>
            /\ work' = (IF stopping THEN "off" ELSE "pending")
            /\ pc[Sampler] \in {"ret", "resched"}
            /\ pc'[Sampler] = "idle"
            /\ disconnected' = disconnected]_vars
    /\ [][pc[Sampler] = "ret" => pc'[Sampler] \in {"ret", "idle"}]_vars
    /\ []((work = "running" /\ pc[Sampler] \in {"ret", "resched"})
            => ENABLED Resched)
    /\ [](work = "off" => (stopping \/ lc \notin
            {"idle", "s_wait", "s_kill", "s_ret", "suspended", "r_wait",
             "r_kill", "in_reset"}))

\* The write of a running cycle found no slot; nothing stops the sampler.
C15_Witness ==
    /\ work = "running"
    /\ pc[Sampler] = "ret"
    /\ ret[Sampler] = EAGAIN
    /\ ~stopping
    /\ lc = "suspended"

\* The part of frontpanel_disconnect after rackmeter_stop_cpu_sniffer.
AfterStop == {"d_lock", "d_set", "d_kill", "d_put", "gone"}

\* C16: cancel_delayed_work_sync returns only when no cycle is executing or
\* queued; from then on the sampler is off for good; disconnect sets the flag
\* and cancels URBs only after that; and a cycle that is running when Stop
\* begins does not queue itself again.
C16_StopIsFinal ==
    /\ [](lc \in AfterStop => (work = "off" /\ pc[Sampler] = "idle"))
    /\ [](disconnected => work = "off")
    /\ [][work = "off" => work' = "off"]_vars
    /\ [][stopping => work' # "pending"]_vars
    /\ [][lc' \in AfterStop => lc \in AfterStop \cup {"d_stop"}]_vars

\* Stop was called while a cycle is running; the cycle has its write's result
\* and is about to reschedule.
C16_Witness ==
    /\ lc = "d_stop"
    /\ stopping
    /\ work = "running"
    /\ pc[Sampler] = "ret"
    /\ path[Sampler] = "ok"

\* C17: dev->errors is read and written only under err_lock: no store to it
\* is made while another context holds err_lock, so between the read and the
\* clear of a take the latch keeps the value that was read.
C17_ErrorsUnderLock ==
    /\ [][(errors' # errors /\ errLock # Free) => errLock' = Free]_vars
    /\ [](\A w \in Writers :
            (pc[w] = "clear" /\ retval[w] < 0) => retval[w] = errors)

\* C18: the take returns -EPIPE for a latched -EPIPE and -EIO for every other
\* latched code, and clears the latch; a completion with a non-zero status
\* replaces whatever the latch held, so the latch holds the most recent code.
C18_ClassifiedOnRead ==
    /\ [][\A w \in Writers :
            (pc[w] = "clear" /\ pc'[w] = "error")
            => /\ retval[w] < 0
               /\ retval'[w] = (IF retval[w] = EPIPE THEN EPIPE ELSE EIO)
               /\ errors' = 0]_vars
    /\ [](\A w \in Writers :
            (pc[w] = "ret" /\ path[w] = "latch") => ret[w] \in {EPIPE, EIO})
    /\ [][\A s \in {EPIPE, EPROTO} : Complete(s) => errors' = s]_vars

\* Two completions have latched before any call took the latch, the later
\* one with -EPIPE, and the call reports -EPIPE.
C18_Witness ==
    /\ cb >= 2
    /\ pc[Sampler] = "error"
    /\ path[Sampler] = "latch"
    /\ retval[Sampler] = EPIPE
    /\ errors = 0
    /\ lc = "idle"
    /\ phase = 1

LoopStep == work = "pending" /\ work' = "running"

\* C11: a cycle that processed all cores (with diff_wall > 0 for each) calls
\* frontpanel_write exactly when the recomputed payload differs from the
\* payload of the last accepted write; so a change whose write failed is
\* written by the next cycle even if the payload did not change again.
C11_WriteIffChanged ==
    [][(/\ LoopStep
        /\ pc'[Sampler] # "oops"
        /\ \A c \in DOMAIN smp' : smp'[c].diff_wall > 0)
       => (pc'[Sampler] = "call" <=> buffer' # emitted)]_vars

\* C12: a cycle in which diff_wall is 0 for a core does not trap, leaves the
\* core's channel byte as it was and stores the counters it read.
C12_ZeroWallSkipped ==
    [][LoopStep =>
        \A c \in DOMAIN smp' :
            smp'[c].diff_wall = 0 =>
                /\ ~smp'[c].oops
                /\ buffer'[c] = buffer[c]
                /\ cpu'[c] = [prev_idle |-> smp'[c].cpu_idle,
                              prev_wall |-> smp'[c].cpu_wall]]_vars

\* C19: the loop processes cores below 16 only; diff_idle and diff_wall are
\* the differences to the stored counters, diff_wall raised to diff_idle;
\* with diff_wall > 0 the load is 255 * (diff_wall - diff_idle) / diff_wall,
\* lies in 0..255 and is the byte stored in the core's channel; channels 16
\* and up never change, and dev->cpu has entries for cores 0..15 only. The
\* range of the formula is also tabulated for all differences up to MaxDiff.
C19_LoadInRange ==
    /\ \A di \in 0 .. MaxDiff, dw \in 0 .. MaxDiff :
        LET w == Clamp(di, dw)
        IN  /\ w >= di /\ w >= dw /\ w \in {di, dw}
            /\ w > 0 => /\ Quot(di, w) \in 0 .. 255
                        /\ Byte(Quot(di, w)) = Quot(di, w)
                        /\ (di = 0 <=> Quot(di, w) = 255)
                        /\ (di = w <=> Quot(di, w) = 0)
    /\ [][LoopStep =>
            \A c \in DOMAIN smp' :
                LET l == smp'[c]
                    raw == l.cpu_wall - cpu[c].prev_wall
                IN  /\ c < 16
                    /\ l.diff_idle = l.cpu_idle - cpu[c].prev_idle
                    /\ l.diff_wall = (IF l.diff_idle > raw THEN l.diff_idle
                                      ELSE raw)
                    /\ l.diff_wall > 0 =>
                        /\ l.load \in 0 .. 255
                        /\ l.load = (255 * (l.diff_wall - l.diff_idle))
                                        \div l.diff_wall
                        /\ buffer'[c] = l.load
                        /\ cpu'[c] = [prev_idle |-> l.cpu_idle,
                                      prev_wall |-> l.cpu_wall]]_vars
    /\ [][\A ch \in Channels : ch >= 16 => buffer'[ch] = buffer[ch]]_vars
    /\ [](DOMAIN cpu = CpuSlots /\ DOMAIN smp \subseteq CpuSlots)
    /\ [](\A ch \in Channels : buffer[ch] \in 0 .. 255)

\* A cycle found the idle counter ahead of the wall counter, raised diff_wall
\* to diff_idle, computed load 0 for the core and stored it, while core 16 is
\* online.
C19_Witness ==
    /\ work = "running"
    /\ 16 \in OnlineCpus
    /\ DOMAIN smp = {0}
    /\ smp[0].diff_wall > smp[0].cpu_wall
    /\ smp[0].load = 0
    /\ buffer[0] = 0
    /\ emitted[0] = 255
====
